---- MODULE Spec2Model ----
(***************************************************************************)
(* The chat bridge of fireship-ext: the message handler registered on the  *)
(* webview panel, the provider adapters it calls, and the messages they    *)
(* post back to the panel.  Three builds of the extension live in the      *)
(* repository: src/src/extension.ts (gemini + ollama), src/unnamed/part_002 *)
(* (adds the VS Code language-model provider) and src/unnamed/part_001     *)
(* (the first, ollama-only version).                                       *)
(*                                                                         *)
(* A handler is an async function: it runs without interruption up to its  *)
(* next await, so one action of the model is one such synchronous segment. *)
(* Texts are sequences of tokens; string concatenation is \o.              *)
(***************************************************************************)
EXTENDS Integers, Sequences, FiniteSets, Bags, TLC

\* Number of chat requests a behaviour submits.
NReq == 2
\* Longest fragment / chunk stream a provider delivers.
MaxFrags == 2

Undefined == "undefined"

(***************************************************************************)
(* Provider registry                                                       *)
(***************************************************************************)
\* typeof is what JavaScript's typeof gives for the value: it tells a registry
\* entry from undefined and from a member inherited from Object.prototype.
GeminiFlash ==
  [typeof |-> "object", name |-> "Gemini 2.0 Flash", modelCode |-> "gemini-2.0-flash-001",
   supportedMedia |-> <<"image", "video", "audio", "text">>, maxInputSize |-> <<100>>]

GeminiFlashLite ==
  [typeof |-> "object", name |-> "Gemini 2.0 Flash Lite", modelCode |-> "gemini-2.0-flash-lite-preview-02-05",
   supportedMedia |-> <<"image", "text">>, maxInputSize |-> <<20>>]

\* The optional maxInputSize is <<n>> when set and <<>> when unset.
DeepSeek ==
  [typeof |-> "object", name |-> "DeepSeek 7B", modelCode |-> "deepseek-r1:7b",
   supportedMedia |-> <<"text">>, maxInputSize |-> <<>>]

modelOptions ==
  [gemini |-> ("gemini-2.0-flash" :> GeminiFlash) @@ ("gemini-2.0-flash-lite" :> GeminiFlashLite),
   ollama |-> ("deepseek-r1:7b" :> DeepSeek)]

\* The value of a modelConfig variable that holds undefined.
UndefinedConfig ==
  [typeof |-> "undefined", name |-> Undefined, modelCode |-> Undefined,
   supportedMedia |-> <<>>, maxInputSize |-> <<>>]

\* The property names every object literal inherits from Object.prototype.
ObjectPrototypeKeys ==
  {"constructor", "toString", "toLocaleString", "valueOf", "hasOwnProperty",
   "isPrototypeOf", "propertyIsEnumerable", "__proto__",
   "__defineGetter__", "__defineSetter__", "__lookupGetter__", "__lookupSetter__"}

\* table[key] for such a name: a function (Object.prototype itself for
\* "__proto__") that is not undefined and has none of the ModelConfig fields, so
\* modelCode and supportedMedia read as undefined without a TypeError.
InheritedMember(key) ==
  [typeof |-> IF key = "__proto__" THEN "object" ELSE "function",
   name |-> IF key = "__proto__" THEN Undefined
            ELSE IF key = "constructor" THEN "Object" ELSE key,
   modelCode |-> Undefined, supportedMedia |-> <<>>, maxInputSize |-> <<>>]

\* modelOptions.gemini[key] / modelOptions.ollama[key]: the entry, an inherited
\* member of the object literal, or undefined.
Lookup(table, key) ==
  IF key \in DOMAIN table THEN table[key]
  ELSE IF key \in ObjectPrototypeKeys THEN InheritedMember(key)
  ELSE UndefinedConfig

\* Array.prototype.includes
Includes(arr, x) == \E i \in 1..Len(arr) : arr[i] = x

\* modelConfig?.supportedMedia?.includes(mediaType)
SupportsMedia(modelConfig, mediaType) ==
  IF modelConfig = UndefinedConfig THEN FALSE ELSE Includes(modelConfig.supportedMedia, mediaType)

(***************************************************************************)
(* MediaProcessor.  A file is its MIME type and its size in bytes.  The     *)
(* type is a sequence of tokens: each slash is the token "/" and the other *)
(* tokens hold no slash, as "," is a token of a data URL.                  *)
(***************************************************************************)
DefaultMaxInputSize == 20
BytesPerMB == 1024 * 1024

\* String.prototype.startsWith, on token sequences.
StartsWith(s, prefix) ==
  Len(s) >= Len(prefix) /\ SubSeq(s, 1, Len(prefix)) = prefix

\* MediaProcessor.detectMediaType
DetectMediaType(file) ==
  IF StartsWith(file.type, <<"image", "/">>) THEN "image"
  ELSE IF StartsWith(file.type, <<"video", "/">>) THEN "video"
  ELSE IF StartsWith(file.type, <<"audio", "/">>) THEN "audio"
  ELSE "text"

\* Variant: the ceiling is 20 MB whatever the descriptor says.
MaxInputSizeAlwaysDefault(config) == DefaultMaxInputSize

\* (config.maxInputSize || 20): an unset field and 0 are both falsy.
MaxInputSizeOrDefault(config) ==
  IF config.maxInputSize = <<>> \/ config.maxInputSize = <<0>>
  THEN DefaultMaxInputSize
  ELSE config.maxInputSize[1]

\* `Media type ${mediaType} not supported by this model`
UnsupportedMediaError(mediaType) ==
  <<"Media type ", mediaType, " not supported by this model">>
OversizedError == <<"File size exceeds model's maximum input size">>

\* MediaProcessor.validateMedia: the promise resolves with true or rejects with
\* an error.
ValidateMedia(file, config) ==
  IF ~Includes(config.supportedMedia, DetectMediaType(file))
  THEN [ok |-> FALSE, error |-> UnsupportedMediaError(DetectMediaType(file))]
  ELSE IF file.size > MaxInputSizeOrDefault(config) * BytesPerMB
  THEN [ok |-> FALSE, error |-> OversizedError]
  ELSE [ok |-> TRUE, error |-> <<>>]

(***************************************************************************)
(* Data URLs.  mediaData is a sequence of tokens; "," "data:" and          *)
(* ";base64" are the tokens the code's split and regular expression see.   *)
(***************************************************************************)
\* Index of the first token of s equal to t at or after position from; 0 when none.
IndexFrom(s, t, from) ==
  IF \E i \in from..Len(s) : s[i] = t
  THEN CHOOSE i \in from..Len(s) : s[i] = t /\ \A j \in from..(i - 1) : s[j] # t
  ELSE 0

\* mediaData.split(',', 2)[0]
SplitMetadata(mediaData) ==
  LET c == IndexFrom(mediaData, ",", 1)
  IN IF c = 0 THEN mediaData ELSE SubSeq(mediaData, 1, c - 1)

\* mediaData.split(',', 2)[1]; <<Undefined>> when the string holds no comma.
SplitBase64Data(mediaData) ==
  LET c == IndexFrom(mediaData, ",", 1)
      rest == SubSeq(mediaData, c + 1, Len(mediaData))
      c2 == IndexFrom(rest, ",", 1)
  IN IF c = 0 THEN <<Undefined>>
     ELSE IF c2 = 0 THEN rest ELSE SubSeq(rest, 1, c2 - 1)

\* Variant: the text from "data:" on is taken, not the captured group.
ExtractMimeTypeWholeMatch(metadata) ==
  LET starts == {i \in 1..Len(metadata) :
                   metadata[i] = "data:" /\ IndexFrom(metadata, ";base64", i + 1) # 0}
  IN IF starts = {} THEN <<>>
     ELSE LET i == CHOOSE x \in starts : \A y \in starts : x <= y
              j == IndexFrom(metadata, ";base64", i + 1)
          IN SubSeq(metadata, i, j - 1)

\* metadata.match(/data:(.*?);base64/)?.[1] || '' : the leftmost "data:" that a
\* ";base64" follows, and the shortest text between the two.
ExtractMimeType(metadata) ==
  LET starts == {i \in 1..Len(metadata) :
                   metadata[i] = "data:" /\ IndexFrom(metadata, ";base64", i + 1) # 0}
  IN IF starts = {} THEN <<>>
     ELSE LET i == CHOOSE x \in starts : \A y \in starts : x <= y
              j == IndexFrom(metadata, ";base64", i + 1)
          IN SubSeq(metadata, i + 1, j - 1)

(***************************************************************************)
(* Messages                                                                *)
(***************************************************************************)
\* Outbound {command: 'chatResponse', text, mediaType?}.  by and k are history
\* fields: who posted it, and for which fragment of the stream (0: none).
ChatResponseMsg(text, mediaType, by, k) ==
  [command |-> "chatResponse", text |-> text, mediaType |-> mediaType, by |-> by, k |-> k]

\* Outbound {command: 'error', text}.
ErrorMsg(text, by) ==
  [command |-> "error", text |-> text, mediaType |-> Undefined, by |-> by, k |-> 0]

\* error.message of the exceptions the handlers themselves raise, as texts.
\* NoError is the error / failure field of a request that has none.
NoError == <<>>
TypeErrorModelCode == <<"Cannot read properties of undefined (reading 'modelCode')">>
MimeError == <<"Unable to extract MIME type from media data">>
DisposedError == <<"Webview is disposed">>
\* The message of the error getGenerativeModel throws for a missing model name.
ModelNameError == <<"Must provide a model name">>
\* JSON.stringify of the selector {vendor: 'copilot'}, the value a configured
\* key holds.
SelectorJson == "{\"vendor\":\"copilot\"}"
\* `No VS Code Language Models found matching selector ${JSON.stringify(selector)}`
NoModelsError ==
  <<"No VS Code Language Models found matching selector ", SelectorJson>>
\* `Unsupported model provider: ${message.model}`, the message of the Error the
\* registered handlers throw.
UnsupportedProviderError(model) == <<"Unsupported model provider: ", model>>
\* The same text, as handleChatMessage posts it.
UnsupportedProviderText(model) == <<"Unsupported model provider: ", model>>

\* JavaScript truthiness of a string held as a token / as a token sequence.
Truthy(s) == s # Undefined /\ s # ""
TruthySeq(s) == s # <<>>

(***************************************************************************)
(* A request's handler state.  out holds the messages delivered by the     *)
(* running segment; raised / error hold the exception in flight.           *)
(***************************************************************************)
\* genAI.getGenerativeModel({model}) belongs to @google/generative-ai, which is
\* not part of src/.  Given a model name it returns the model object; given
\* undefined it throws or returns, whichever the installed library does.
GetGenerativeModelOutcomes(modelCode) ==
  IF Truthy(modelCode) THEN {"returns"} ELSE {"returns", "throws"}

\* getModel is what getGenerativeModel does when this request calls it.
NewRequest(h, msg) ==
  [h |-> h, msg |-> msg, pc |-> "start", cfg |-> UndefinedConfig, getModel |-> "returns",
   responseText |-> <<>>, k |-> 0,
   adapters |-> <<>>, calls |-> <<>>, provided |-> <<>>, chunks |-> <<>>,
   models |-> <<"unresolved">>, failure |-> NoError,
   trail |-> {}, out |-> <<>>, raised |-> FALSE, error |-> NoError, escaped |-> FALSE]

IdleRequest ==
  [NewRequest(Undefined, [command |-> Undefined, text |-> <<>>, model |-> Undefined,
                          modelKey |-> Undefined, mediaData |-> <<>>,
                          mediaType |-> Undefined])
     EXCEPT !.pc = "idle"]

\* panel.webview.postMessage(m): delivers m, or raises when the webview is disposed.
PostMessage(q, d, m) ==
  IF d THEN [q EXCEPT !.raised = TRUE, !.error = DisposedError]
  ELSE [q EXCEPT !.out = Append(@, m)]

\* An exception caught by a catch block: no longer in flight.
Caught(q, block) == [q EXCEPT !.raised = FALSE, !.trail = @ \cup {block}]

\* The handler returns normally.
Return(q) == [q EXCEPT !.pc = "done"]

\* An exception leaves the registered handler (or handleChatMessage) uncaught.
Escape(q) == [q EXCEPT !.pc = "done", !.escaped = TRUE]

Invoke(q, adapter) ==
  [q EXCEPT !.adapters = Append(@, adapter), !.trail = @ \cup {"adapterTry"}]

IssueCall(q, call, pc) == [q EXCEPT !.calls = Append(@, call), !.pc = pc]

(***************************************************************************)
(* Provider calls, as the history of a request records them.               *)
(***************************************************************************)
GenerateContentCall(modelCode, prompt, mimeType, data) ==
  [api |-> "generateContent", model |-> modelCode, prompt |-> prompt,
   mimeType |-> mimeType, data |-> data]

OllamaChatCall(modelCode, prompt) ==
  [api |-> "ollama.chat", model |-> modelCode, prompt |-> prompt,
   mimeType |-> <<>>, data |-> <<>>]

SelectChatModelsCall ==
  [api |-> "selectChatModels", model |-> Undefined, prompt |-> <<>>,
   mimeType |-> <<>>, data |-> <<>>]

SendRequestCall(model, prompt) ==
  [api |-> "sendRequest", model |-> model, prompt |-> prompt,
   mimeType |-> <<>>, data |-> <<>>]

(***************************************************************************)
(* The dispatcher's catch block around the adapter call.  part_001 awaits  *)
(* its adapter bare, so there an exception would leave the handler.        *)
(***************************************************************************)
DispatcherCatch(q, d) ==
  IF q.h = "v1" THEN Escape(q)
  ELSE LET q1 == PostMessage(Caught(q, "dispatcherCatch"), d,
                             ErrorMsg(<<"Error: ">> \o q.error, "dispatcher"))
       IN IF q1.raised THEN Escape(q1) ELSE Return(q1)

(***************************************************************************)
(* handleGeminiMultimodalRequest                                           *)
(***************************************************************************)
\* catch (error) { try { postMessage(error) } catch (e) { console.warn } }
MultimodalCatch(q, d) ==
  LET q1 == PostMessage(Caught(q, "adapterCatch"), d,
              ErrorMsg(<<"Error processing ", q.msg.mediaType, ": ">> \o q.error,
                       "adapter"))
  IN Return([q1 EXCEPT !.raised = FALSE])

\* The segment up to `await model.generateContent(...)`: the read of
\* modelConfig.modelCode, getGenerativeModel, the split of the data URL.
MultimodalStart(q, d) ==
  LET q0 == Invoke(q, "handleGeminiMultimodalRequest")
      mimeType == ExtractMimeType(SplitMetadata(q.msg.mediaData))
  IN IF q0.cfg = UndefinedConfig
     THEN MultimodalCatch([q0 EXCEPT !.raised = TRUE, !.error = TypeErrorModelCode], d)
     ELSE IF q0.getModel = "throws"
     THEN MultimodalCatch([q0 EXCEPT !.raised = TRUE, !.error = ModelNameError], d)
     ELSE IF ~TruthySeq(mimeType)
     THEN MultimodalCatch([q0 EXCEPT !.raised = TRUE, !.error = MimeError], d)
     ELSE IssueCall(q0, GenerateContentCall(q0.cfg.modelCode, q.msg.text, mimeType,
                                            SplitBase64Data(q.msg.mediaData)),
                    "awaitGenerateMultimodal")

\* Variant: the text is relayed as a partial first, then posted as the result.
MultimodalResolvedWithPartial(q, d, text) ==
  LET q0 == [q EXCEPT !.provided = Append(@, text)]
      q1 == PostMessage(q0, d, ChatResponseMsg(text, q.msg.mediaType, "adapter", 1))
      q2 == PostMessage(q1, d, ChatResponseMsg(text, q.msg.mediaType, "adapter", 0))
  IN Return([q2 EXCEPT !.raised = FALSE])

\* generateContent resolved with `text`: the guarded post of the chatResponse.
MultimodalResolved(q, d, text) ==
  LET q0 == [q EXCEPT !.provided = Append(@, text)]
      q1 == PostMessage(q0, d, ChatResponseMsg(text, q.msg.mediaType, "adapter", 0))
  IN Return([q1 EXCEPT !.raised = FALSE])

\* generateContent rejected with error message e.
MultimodalRejected(q, d, e) ==
  MultimodalCatch([q EXCEPT !.raised = TRUE, !.error = e, !.failure = e], d)

(***************************************************************************)
(* handleGeminiChatResponse                                                *)
(***************************************************************************)
\* catch (error) { postMessage(error) }: the post is unguarded.
TextCatch(q, d) ==
  LET q1 == PostMessage(Caught(q, "adapterCatch"), d,
                        ErrorMsg(<<"Error: ">> \o q.error, "adapter"))
  IN IF q1.raised THEN DispatcherCatch(q1, d) ELSE Return(q1)

TextStart(q, d) ==
  LET q0 == Invoke(q, "handleGeminiChatResponse")
  IN IF q0.cfg = UndefinedConfig
     THEN TextCatch([q0 EXCEPT !.raised = TRUE, !.error = TypeErrorModelCode], d)
     ELSE IF q0.getModel = "throws"
     THEN TextCatch([q0 EXCEPT !.raised = TRUE, !.error = ModelNameError], d)
     ELSE IssueCall(q0, GenerateContentCall(q0.cfg.modelCode, q.msg.text, <<>>, <<>>),
                    "awaitGenerateText")

\* Variant: the error post sits in a finally block, so it also follows a success.
TextResolvedThenError(q, d, text) ==
  LET q0 == [q EXCEPT !.provided = Append(@, text)]
      q1 == PostMessage(q0, d, ChatResponseMsg(text, Undefined, "adapter", 0))
  IN TextCatch([q1 EXCEPT !.error = DisposedError], d)

TextResolved(q, d, text) ==
  LET q0 == [q EXCEPT !.provided = Append(@, text)]
      q1 == PostMessage(q0, d, ChatResponseMsg(text, Undefined, "adapter", 0))
  IN IF q1.raised THEN TextCatch(q1, d) ELSE Return(q1)

TextRejected(q, d, e) ==
  TextCatch([q EXCEPT !.raised = TRUE, !.error = e, !.failure = e], d)

(***************************************************************************)
(* handleOllamaChatResponse, and part_001's handleChatResponse             *)
(***************************************************************************)
\* Both catch blocks; part_001's only logs the error.
OllamaCatch(q, d) ==
  IF q.h = "v1" THEN Return(Caught(q, "adapterCatch"))
  ELSE LET q1 == PostMessage(Caught(q, "adapterCatch"), d,
                             ErrorMsg(<<"Error: ">> \o q.error, "adapter"))
       IN IF q1.raised THEN DispatcherCatch(q1, d) ELSE Return(q1)

OllamaStart(q, d) ==
  LET q0 == Invoke(q, IF q.h = "v1" THEN "handleChatResponse" ELSE "handleOllamaChatResponse")
  IN IF q.h = "v1"
     THEN IssueCall(q0, OllamaChatCall("deepseek-r1:7b", q.msg.text), "awaitChat")
     ELSE IF q0.cfg = UndefinedConfig
     THEN OllamaCatch([q0 EXCEPT !.raised = TRUE, !.error = TypeErrorModelCode], d)
     ELSE IssueCall(q0, OllamaChatCall(q0.cfg.modelCode, q.msg.text), "awaitChat")

\* Variant: responseText = part.message.content (the delta replaces the total).
AccumulateDelta(responseText, content) == content

\* responseText += part.message.content
Accumulate(responseText, content) == responseText \o content

\* Variant: the first fragment is accumulated but not relayed.
OllamaPartSkipsFirst(q, d, content) ==
  LET q0 == [q EXCEPT !.responseText = Accumulate(@, content), !.k = @ + 1,
                      !.provided = Append(@, content)]
      q1 == PostMessage(q0, d, ChatResponseMsg(q0.responseText, Undefined, "adapter", q0.k))
  IN IF q.k = 0 THEN q0 ELSE IF q1.raised THEN OllamaCatch(q1, d) ELSE q1

\* One turn of the for-await loop over the stream.
OllamaPart(q, d, content) ==
  LET q0 == [q EXCEPT !.responseText = Accumulate(@, content), !.k = @ + 1,
                      !.provided = Append(@, content)]
      q1 == PostMessage(q0, d, ChatResponseMsg(q0.responseText, Undefined, "adapter", q0.k))
  IN IF q1.raised THEN OllamaCatch(q1, d) ELSE q1

OllamaRejected(q, d, e) ==
  OllamaCatch([q EXCEPT !.raised = TRUE, !.error = e, !.failure = e], d)

(***************************************************************************)
(* The VS Code language-model path, written inline in the dispatchers of   *)
(* part_002.  models is the list selectChatModels resolved with; NoList    *)
(* stands for a missing list.                                              *)
(***************************************************************************)
NoList == <<Undefined>>

MissingSelectorText ==
  <<"Error: VS Code Language Model API is selected but fireship-ext.vsCodeLmModelSelector is not configured in settings.">>

\* The configuration key each dispatcher reads under "fireship-ext".
SelectorKey(h) ==
  IF h = "lm" THEN "roo-cline.vsCodeLmModelSelector" ELSE "vsCodeLmModelSelector"

\* catch block of the language-model path: an unguarded post, outside any other try.
LmCatch(q, d) ==
  LET prefix == IF q.h = "lm" THEN "Error: VS Code LM API Error: " ELSE "Error: "
      q1 == PostMessage(Caught(q, "adapterCatch"), d,
                        ErrorMsg(<<prefix>> \o q.error, "hostModel"))
  IN IF q1.raised THEN Escape(q1) ELSE Return(q1)

\* Variant: the selector is handed to selectChatModels without the check.
LmStartUnchecked(q, d, config) ==
  IssueCall([q EXCEPT !.trail = @ \cup {"adapterTry"}], SelectChatModelsCall, "awaitSelect")

\* Up to `await vscode.lm.selectChatModels(selector)`.
LmStart(q, d, config) ==
  IF SelectorKey(q.h) \notin config
  THEN LET q1 == PostMessage(q, d, ErrorMsg(MissingSelectorText, "dispatcher"))
       IN IF q1.raised THEN Escape(q1) ELSE Return(q1)
  ELSE IssueCall([q EXCEPT !.trail = @ \cup {"adapterTry"}], SelectChatModelsCall,
                 "awaitSelect")

\* selectChatModels resolved.  The registered handler of part_002 posts a fixed
\* text; handleChatMessage sends the prompt to the first model of the list.
\* Variant: only an empty list is rejected, a missing list is not.
LmSelectedLengthOnly(q, d, models) ==
  LET q0 == [q EXCEPT !.models = models] IN
  IF Len(models) = 0
  THEN LmCatch([q0 EXCEPT !.raised = TRUE, !.error = NoModelsError], d)
  ELSE IF q.h = "lm"
  THEN LET q1 == PostMessage(q0, d, ChatResponseMsg(<<"Result from VS Code LM API">>,
                                                    Undefined, "hostModel", 0))
       IN IF q1.raised THEN LmCatch(q1, d) ELSE Return(q1)
  ELSE IssueCall(q0, SendRequestCall(models[1], q.msg.text), "awaitSend")

LmSelected(q, d, models) ==
  LET q0 == [q EXCEPT !.models = models] IN
  IF models = NoList \/ Len(models) = 0
  THEN LmCatch([q0 EXCEPT !.raised = TRUE, !.error = NoModelsError], d)
  ELSE IF q.h = "lm"
  THEN LET q1 == PostMessage(q0, d, ChatResponseMsg(<<"Result from VS Code LM API">>,
                                                    Undefined, "hostModel", 0))
       IN IF q1.raised THEN LmCatch(q1, d) ELSE Return(q1)
  ELSE IssueCall(q0, SendRequestCall(models[1], q.msg.text), "awaitSend")

LmRejected(q, d, e) ==
  LmCatch([q EXCEPT !.raised = TRUE, !.error = e, !.failure = e], d)

\* One chunk of response.stream: only a LanguageModelTextPart adds its value.
LmChunkResult(result, chunk) ==
  IF chunk.isTextPart THEN result \o chunk.value ELSE result

\* Variant: every chunk is relayed as it arrives, as the ollama adapter does.
LmChunkRelayed(q, chunk) ==
  [q EXCEPT !.responseText = LmChunkResult(@, chunk), !.k = @ + 1,
            !.chunks = Append(@, chunk),
            !.out = Append(@, ChatResponseMsg(LmChunkResult(q.responseText, chunk),
                                              Undefined, "hostModel", q.k + 1))]

LmChunk(q, chunk) ==
  [q EXCEPT !.responseText = LmChunkResult(@, chunk), !.k = @ + 1,
            !.chunks = Append(@, chunk)]

\* The stream ended: the one post of the accumulated result.
LmStreamEnd(q, d) ==
  LET q1 == PostMessage(q, d, ChatResponseMsg(q.responseText, Undefined, "hostModel", 0))
  IN IF q1.raised THEN LmCatch(q1, d) ELSE Return(q1)

(***************************************************************************)
(* Dispatchers                                                             *)
(***************************************************************************)
HasMedia(msg) == TruthySeq(msg.mediaData) /\ Truthy(msg.mediaType)

\* src/src/extension.ts, the body of `if (message.command === 'chat')`.
DispatchExtension(q, d) ==
  LET msg == q.msg IN
  IF msg.model = "gemini"
  THEN LET q0 == [q EXCEPT !.cfg = Lookup(modelOptions.gemini, msg.modelKey)]
       IN IF HasMedia(msg) THEN MultimodalStart(q0, d) ELSE TextStart(q0, d)
  ELSE IF msg.model = "ollama"
  THEN OllamaStart([q EXCEPT !.cfg = Lookup(modelOptions.ollama, msg.modelKey)], d)
  ELSE Escape([q EXCEPT !.raised = TRUE, !.error = UnsupportedProviderError(msg.model)])

\* The try block shared by the two dispatchers of part_002: every request that
\* is not multimodal goes to handleGeminiChatResponse.
DispatchByMedia(q, d) ==
  IF HasMedia(q.msg) /\ SupportsMedia(q.cfg, q.msg.mediaType)
  THEN MultimodalStart(q, d)
  ELSE TextStart(q, d)

\* src/unnamed/part_002, the registered handler's body for command 'chat'.
DispatchLm(q, d, config) ==
  LET msg == q.msg IN
  IF msg.model = "vscode-lm" THEN LmStart(q, d, config)
  ELSE IF msg.model = "gemini"
  THEN DispatchByMedia([q EXCEPT !.cfg = Lookup(modelOptions.gemini, msg.modelKey)], d)
  ELSE IF msg.model = "ollama"
  THEN DispatchByMedia([q EXCEPT !.cfg = Lookup(modelOptions.ollama, msg.modelKey)], d)
  ELSE Escape([q EXCEPT !.raised = TRUE, !.error = UnsupportedProviderError(msg.model)])

\* src/unnamed/part_002, handleChatMessage: it does not look at message.command.
HandleChatMessage(q, d, config) ==
  LET msg == q.msg IN
  IF msg.model = "vscode-lm" THEN LmStart(q, d, config)
  ELSE IF msg.model = "gemini"
  THEN DispatchByMedia([q EXCEPT !.cfg = Lookup(modelOptions.gemini, msg.modelKey)], d)
  ELSE IF msg.model = "ollama"
  THEN DispatchByMedia([q EXCEPT !.cfg = Lookup(modelOptions.ollama, msg.modelKey)], d)
  ELSE LET q1 == PostMessage(q, d, ErrorMsg(UnsupportedProviderText(msg.model), "dispatcher"))
       IN IF q1.raised THEN Escape(q1) ELSE Return(q1)

\* Variant: the handler does not test message.command.
OnDidReceiveMessageAnyCommand(q, d, config) ==
  IF q.h = "ext" THEN DispatchExtension(q, d)
  ELSE IF q.h = "lm" THEN DispatchLm(q, d, config)
  ELSE OllamaStart(q, d)

\* The callback given to panel.webview.onDidReceiveMessage, per build, up to its
\* first await.
OnDidReceiveMessage(q, d, config) ==
  IF q.msg.command # "chat" THEN Return(q)
  ELSE IF q.h = "ext" THEN DispatchExtension(q, d)
  ELSE IF q.h = "lm" THEN DispatchLm(q, d, config)
  ELSE OllamaStart(q, d)

(***************************************************************************)
(* Inputs                                                                  *)
(***************************************************************************)
Req == 1..NReq

Prompt == <<"hi">>

PngDataUrl == <<"data:", "image/png", ";base64", ",", "AAAA">>
Mp4DataUrl == <<"data:", "video/mp4", ";base64", ",", "AAAA">>
NoPrefixData == <<"AAAA">>
TxtDataUrl == <<"data:", "text/plain", ";base64", ",", "AAAA">>
PdfDataUrl == <<"data:", "application/pdf", ";base64", ",", "AAAA">>

\* mediaData / mediaType pairs of an inbound message; <<>> is an absent mediaData.
MediaChoices ==
  { [mediaData |-> <<>>, mediaType |-> Undefined],
    [mediaData |-> PngDataUrl, mediaType |-> "image"],
    [mediaData |-> Mp4DataUrl, mediaType |-> "video"],
    [mediaData |-> NoPrefixData, mediaType |-> "image"],
    [mediaData |-> PngDataUrl, mediaType |-> Undefined],
    [mediaData |-> TxtDataUrl, mediaType |-> "text"] }

Providers == {"gemini", "ollama", "vscode-lm", "openai"}
KnownProviders(h) ==
  IF h = "ext" THEN {"gemini", "ollama"}
  ELSE IF h = "v1" THEN {} ELSE {"gemini", "ollama", "vscode-lm"}
ModelKeys ==
  {"gemini-2.0-flash", "gemini-2.0-flash-lite", "deepseek-r1:7b", "constructor", Undefined}

ChatMsg(model, modelKey, media) ==
  [command |-> "chat", text |-> Prompt, model |-> model, modelKey |-> modelKey,
   mediaData |-> media.mediaData, mediaType |-> media.mediaType]

\* Every shape of inbound message: the chat requests, and messages of another
\* command, one per provider tag.
Messages ==
  { ChatMsg(p, key, media) : p \in Providers, key \in ModelKeys, media \in MediaChoices }
  \cup { [ChatMsg(p, "deepseek-r1:7b", [mediaData |-> <<>>, mediaType |-> Undefined])
            EXCEPT !.command = "reset"] : p \in Providers }

\* What the panel of extension.ts sends for a model of its list and no file loaded.
PanelMessages ==
  { ChatMsg("ollama", "deepseek-r1:7b", [mediaData |-> <<>>, mediaType |-> Undefined]),
    ChatMsg("gemini", "gemini-2.0-flash", [mediaData |-> <<>>, mediaType |-> Undefined]) }

\* What the providers answer with.
Replies == {<<"Hello">>}
Errors == {<<"fetch failed">>}
Fragments == {<<"Hel">>, <<"lo">>}
PanelFragments == {<<"Hel">>}
ModelLists == {NoList, <<>>, <<"copilot-a">>, <<"copilot-a", "copilot-b">>}
Chunks == { [isTextPart |-> TRUE, value |-> <<"Hel">>],
            [isTextPart |-> TRUE, value |-> <<"lo">>],
            [isTextPart |-> FALSE, value |-> <<"tool">>] }

Builds == {"extension", "part_002", "part_001"}
ConfigKeys == {"vsCodeLmModelSelector", "roo-cline.vsCodeLmModelSelector"}

\* The callback each build registers with panel.webview.onDidReceiveMessage, the
\* only way a message of the page enters the extension.  handleChatMessage of
\* part_002 is called by nothing.
Handlers(b) ==
  IF b = "extension" THEN {"ext"}
  ELSE IF b = "part_001" THEN {"v1"}
  ELSE {"lm"}

(***************************************************************************)
(* State                                                                   *)
(***************************************************************************)
VARIABLES
  build,     \* which source file is the running extension
  config,    \* the keys set under the "fireship-ext" configuration section
  disposed,  \* the webview panel has been disposed
  req,       \* the handler state of each request
  nsub,      \* number of requests submitted so far
  outbox,    \* the messages delivered to the panel, in order, each with its request
  ui,        \* the webview's page: the Send button, the response area
  probe      \* one call of MediaProcessor.validateMedia: its arguments and outcome

vars == <<build, config, disposed, req, nsub, outbox, ui, probe>>

\* The value of an option of modelSelect.
OptionValue(provider, key) ==
  [provider |-> provider, modelKey |-> key,
   supportedMedia |-> modelOptions[provider][key].supportedMedia]

\* The options in document order; the first one is selected when the page loads.
ModelSelectOptions ==
  << OptionValue("gemini", "gemini-2.0-flash"),
     OptionValue("gemini", "gemini-2.0-flash-lite"),
     OptionValue("ollama", "deepseek-r1:7b") >>

\* The page of extension.ts as its script leaves it after loading; seen counts
\* the messages of the outbox the message listener has handled.
\* currentMediaData <<>> and currentMediaType Undefined stand for null;
\* reading holds, as a bag, the files whose FileReaders have not fired onload
\* yet; posted holds the messages the click handler gave to
\* vscode.postMessage that the extension has not received yet.
InitialPage ==
  [askBtnDisabled |-> FALSE, askBtnText |-> "Send",
   responseText |-> <<>>, responseClass |-> "", seen |-> 0,
   selected |-> ModelSelectOptions[1],
   currentMediaData |-> <<>>, currentMediaType |-> Undefined,
   reading |-> EmptyBag, mediaInputDisplay |-> "", posted |-> <<>>]

\* The options populateModelSelect of part_002 builds from the table of its own
\* page: the language-model entry comes first.
ModelSelectOptionsLm ==
  << [provider |-> "vscode-lm", modelKey |-> "vscode-lm", supportedMedia |-> <<"text">>] >>
  \o ModelSelectOptions

\* A page without a model list: nothing is selected.
NoOption == [provider |-> Undefined, modelKey |-> Undefined, supportedMedia |-> <<>>]

\* The page each build loads into its panel.  part_001 has an "Ask" button and
\* neither a model list nor a file input.
InitialPageOf(b) ==
  IF b = "extension" THEN InitialPage
  ELSE IF b = "part_002" THEN [InitialPage EXCEPT !.selected = ModelSelectOptionsLm[1]]
  ELSE [InitialPage EXCEPT !.askBtnText = "Ask", !.selected = NoOption]

NoResult == [ok |-> FALSE, error |-> <<>>]

\* No call of validateMedia: the extension never makes one.
NoProbe ==
  [file |-> [type |-> <<>>, size |-> 0], config |-> UndefinedConfig,
   called |-> FALSE, result |-> NoResult]

Tagged(r, out) == [i \in 1..Len(out) |-> [rid |-> r, msg |-> out[i]]]

\* The end of a segment of request r: its posts reach the panel, its state is kept.
CommitPage(r, q, page) ==
  /\ req' = [req EXCEPT ![r] = [q EXCEPT !.out = <<>>]]
  /\ outbox' = outbox \o Tagged(r, q.out)
  /\ ui' = page
  /\ UNCHANGED <<build, config, disposed, probe>>

\* The same, the page untouched.
Commit(r, q) == CommitPage(r, q, ui)

InFlight(r) == req[r].pc \notin {"idle", "done"}

Init ==
  /\ build \in Builds
  /\ config \in (IF build = "part_002" THEN SUBSET ConfigKeys ELSE {{}})
  /\ disposed = FALSE
  /\ req = [r \in Req |-> IdleRequest]
  /\ nsub = 0
  /\ outbox = <<>>
  /\ ui = InitialPageOf(build)
  /\ probe = NoProbe

\* What getGenerativeModel can do for the model name the registry gives for
\* message m.
SdkOutcomes(m) ==
  IF m.model \in {"gemini", "ollama"}
  THEN LET c == Lookup(modelOptions[m.model], m.modelKey)
       IN IF c = UndefinedConfig THEN {"returns"}
          ELSE GetGenerativeModelOutcomes(c.modelCode)
  ELSE {"returns"}

\* Message m as the handler h starts on it.
Arrived(h, m, g) == [NewRequest(h, m) EXCEPT !.getModel = g]

\* The registered callback is called with message m and runs up to its first
\* await; the page becomes `page`.
ReceivePage(r, h, m, page) ==
  /\ req[r].pc = "idle"
  /\ nsub' = nsub + 1
  /\ \E g \in SdkOutcomes(m) :
       CommitPage(r, OnDidReceiveMessage(Arrived(h, m, g), disposed, config), page)

\* Variant: responseText is shared by the requests and never emptied.
ReceiveSharedText(r, h, m) ==
  /\ req[r].pc = "idle"
  /\ nsub' = nsub + 1
  /\ \E g \in SdkOutcomes(m) :
       Commit(r, OnDidReceiveMessage(
                   [Arrived(h, m, g) EXCEPT
                      !.responseText = IF r > 1 THEN req[r - 1].responseText ELSE <<>>],
                   disposed, config))

Receive(r, h, m) == ReceivePage(r, h, m, ui)

\* One message of any shape.
Submit ==
  /\ nsub = 0
  /\ ~disposed
  /\ \E h \in Handlers(build), m \in Messages : Receive(1, h, m)

\* The user closes the panel.
Dispose ==
  /\ ~disposed
  /\ disposed' = TRUE
  /\ UNCHANGED <<build, config, req, nsub, outbox, ui, probe>>

GenerateContentResolves(r) ==
  /\ req[r].pc \in {"awaitGenerateMultimodal", "awaitGenerateText"}
  /\ \E text \in Replies :
       Commit(r, IF req[r].pc = "awaitGenerateMultimodal"
                 THEN MultimodalResolved(req[r], disposed, text)
                 ELSE TextResolved(req[r], disposed, text))
  /\ UNCHANGED nsub

GenerateContentRejects(r) ==
  /\ req[r].pc \in {"awaitGenerateMultimodal", "awaitGenerateText"}
  /\ \E e \in Errors :
       Commit(r, IF req[r].pc = "awaitGenerateMultimodal"
                 THEN MultimodalRejected(req[r], disposed, e)
                 ELSE TextRejected(req[r], disposed, e))
  /\ UNCHANGED nsub

ChatResolves(r) ==
  /\ req[r].pc = "awaitChat"
  /\ Commit(r, [req[r] EXCEPT !.pc = "streaming"])
  /\ UNCHANGED nsub

ChatRejects(r) ==
  /\ req[r].pc = "awaitChat"
  /\ \E e \in Errors : Commit(r, OllamaRejected(req[r], disposed, e))
  /\ UNCHANGED nsub

StreamPart(r, frags) ==
  /\ req[r].pc = "streaming"
  /\ req[r].k < MaxFrags
  /\ \E content \in frags : Commit(r, OllamaPart(req[r], disposed, content))
  /\ UNCHANGED nsub

StreamEnds(r) ==
  /\ req[r].pc = "streaming"
  /\ Commit(r, Return(req[r]))
  /\ UNCHANGED nsub

StreamFails(r) ==
  /\ req[r].pc = "streaming"
  /\ \E e \in Errors : Commit(r, OllamaRejected(req[r], disposed, e))
  /\ UNCHANGED nsub

SelectResolves(r) ==
  /\ req[r].pc = "awaitSelect"
  /\ \E models \in ModelLists : Commit(r, LmSelected(req[r], disposed, models))
  /\ UNCHANGED nsub

SelectRejects(r) ==
  /\ req[r].pc = "awaitSelect"
  /\ \E e \in Errors : Commit(r, LmRejected(req[r], disposed, e))
  /\ UNCHANGED nsub

SendResolves(r) ==
  /\ req[r].pc = "awaitSend"
  /\ Commit(r, [req[r] EXCEPT !.pc = "lmStreaming"])
  /\ UNCHANGED nsub

SendRejects(r) ==
  /\ req[r].pc = "awaitSend"
  /\ \E e \in Errors : Commit(r, LmRejected(req[r], disposed, e))
  /\ UNCHANGED nsub

LmStreamChunk(r) ==
  /\ req[r].pc = "lmStreaming"
  /\ req[r].k < MaxFrags
  /\ \E chunk \in Chunks : Commit(r, LmChunk(req[r], chunk))
  /\ UNCHANGED nsub

LmStreamEnds(r) ==
  /\ req[r].pc = "lmStreaming"
  /\ Commit(r, LmStreamEnd(req[r], disposed))
  /\ UNCHANGED nsub

LmStreamFails(r) ==
  /\ req[r].pc = "lmStreaming"
  /\ \E e \in Errors : Commit(r, LmRejected(req[r], disposed, e))
  /\ UNCHANGED nsub

Next ==
  \/ Submit
  \/ Dispose
  \/ \E r \in Req : GenerateContentResolves(r)
  \/ \E r \in Req : GenerateContentRejects(r)
  \/ \E r \in Req : ChatResolves(r)
  \/ \E r \in Req : ChatRejects(r)
  \/ \E r \in Req : StreamPart(r, Fragments)
  \/ \E r \in Req : StreamEnds(r)
  \/ \E r \in Req : StreamFails(r)
  \/ \E r \in Req : SelectResolves(r)
  \/ \E r \in Req : SelectRejects(r)

Spec == Init /\ [][Next]_vars

(***************************************************************************)
(* handleChatMessage of part_002 called on its own, once, with a message   *)
(* of any shape.  The extension makes no such call: these are behaviours   *)
(* of the function, not of a build.                                        *)
(***************************************************************************)
InitHandleChatMessage ==
  /\ build = "part_002"
  /\ config \in SUBSET ConfigKeys
  /\ disposed = FALSE
  /\ req = [r \in Req |-> IdleRequest]
  /\ nsub = 0
  /\ outbox = <<>>
  /\ ui = InitialPageOf(build)
  /\ probe = NoProbe

\* The call is made for a message of the panel, so with the panel live.
CallHandleChatMessage ==
  /\ nsub = 0
  /\ ~disposed
  /\ nsub' = 1
  /\ \E m \in Messages : \E g \in SdkOutcomes(m) :
       Commit(1, HandleChatMessage(Arrived("hcm", m, g), disposed, config))

NextHandleChatMessage ==
  \/ CallHandleChatMessage
  \/ Dispose
  \/ \E r \in Req : GenerateContentResolves(r)
  \/ \E r \in Req : GenerateContentRejects(r)
  \/ \E r \in Req : SelectResolves(r)
  \/ \E r \in Req : SelectRejects(r)
  \/ \E r \in Req : SendResolves(r)
  \/ \E r \in Req : SendRejects(r)
  \/ \E r \in Req : LmStreamChunk(r)
  \/ \E r \in Req : LmStreamEnds(r)
  \/ \E r \in Req : LmStreamFails(r)

SpecHandleChatMessage == InitHandleChatMessage /\ [][NextHandleChatMessage]_vars

(***************************************************************************)
(* Several requests of one panel of extension.ts, handled concurrently:    *)
(* the Send button is enabled again by the first message that arrives, so  *)
(* a request can be submitted while an earlier one is still streaming.     *)
(***************************************************************************)
InitPanel ==
  /\ build = "extension"
  /\ config = {}
  /\ disposed = FALSE
  /\ req = [r \in Req |-> IdleRequest]
  /\ nsub = 0
  /\ outbox = <<>>
  /\ ui = InitialPage
  /\ probe = NoProbe

SubmitPanel ==
  /\ nsub < NReq
  /\ ~disposed
  /\ \E m \in PanelMessages : Receive(nsub + 1, "ext", m)

NextPanel ==
  \/ SubmitPanel
  \/ Dispose
  \/ \E r \in Req : GenerateContentResolves(r)
  \/ \E r \in Req : GenerateContentRejects(r)
  \/ \E r \in Req : ChatResolves(r)
  \/ \E r \in Req : ChatRejects(r)
  \/ \E r \in Req : StreamPart(r, PanelFragments)
  \/ \E r \in Req : StreamEnds(r)
  \/ \E r \in Req : StreamFails(r)

SpecPanel == InitPanel /\ [][NextPanel]_vars

(***************************************************************************)
(* The same panel driven through its page: a request is submitted by a     *)
(* click on the Send button, and the page's message listener handles the   *)
(* posted messages one by one.                                             *)
(***************************************************************************)
\* The message the click handler builds from the page.
PageMessage(page) ==
  ChatMsg(page.selected.provider, page.selected.modelKey,
          IF TruthySeq(page.currentMediaData)
             /\ Includes(page.selected.supportedMedia, page.currentMediaType)
          THEN [mediaData |-> page.currentMediaData, mediaType |-> page.currentMediaType]
          ELSE [mediaData |-> <<>>, mediaType |-> Undefined])

\* Variant: the click handler forgets the loaded file once it has sent it.
ClickAskClearsMedia ==
  /\ ~ui.askBtnDisabled
  /\ ~disposed
  /\ nsub + Len(ui.posted) < NReq
  /\ ui' = [ui EXCEPT !.askBtnDisabled = TRUE, !.askBtnText = "Sending",
                      !.posted = Append(@, PageMessage(ui)),
                      !.currentMediaData = <<>>, !.currentMediaType = Undefined]
  /\ UNCHANGED <<build, config, disposed, req, nsub, outbox, probe>>

\* The click handler of askBtn; a disabled button receives no click.  It ends
\* with vscode.postMessage: the message is on its way to the extension.
ClickAsk ==
  /\ ~ui.askBtnDisabled
  /\ ~disposed
  /\ nsub + Len(ui.posted) < NReq
  /\ ui' = [ui EXCEPT !.askBtnDisabled = TRUE, !.askBtnText = "Sending",
                      !.posted = Append(@, PageMessage(ui))]
  /\ UNCHANGED <<build, config, disposed, req, nsub, outbox, probe>>

\* The oldest posted message reaches the extension, in a later turn of its
\* event loop: the registered callback runs up to its first await.  A message
\* still on its way when the panel is disposed is never handled.
DeliverPosted ==
  /\ ~disposed
  /\ ui.posted # <<>>
  /\ ReceivePage(nsub + 1, "ext", Head(ui.posted), [ui EXCEPT !.posted = Tail(@)])

\* modelSelect 'change': the user picks another option.
SelectModel ==
  /\ ~disposed
  /\ \E i \in 1..Len(ModelSelectOptions) :
       /\ ModelSelectOptions[i] # ui.selected
       /\ ui' = [ui EXCEPT !.selected = ModelSelectOptions[i],
                           !.mediaInputDisplay =
                             IF Len(ModelSelectOptions[i].supportedMedia) > 1
                             THEN "block" ELSE "none"]
  /\ UNCHANGED <<build, config, disposed, req, nsub, outbox, probe>>

\* The files the user can pick: their MIME type and what readAsDataURL gives.
PageFiles ==
  { [type |-> <<"image", "/", "png">>, url |-> PngDataUrl],
    [type |-> <<"application", "/", "pdf">>, url |-> PdfDataUrl] }

\* file.type.split('/')[0]: the text before the first slash, the whole type
\* when it holds none, the empty string when it is empty or starts with a slash.
TypeHead(type) ==
  IF type = <<>> \/ type[1] = "/" THEN "" ELSE type[1]

\* Most FileReaders reading at one time.
MaxReads == 2

\* mediaInput 'change': a new FileReader starts reading the picked file,
\* whatever is being read already.  A hidden input cannot be used.
MediaInputChange ==
  /\ ~disposed
  /\ ui.mediaInputDisplay # "none"
  /\ BagCardinality(ui.reading) < MaxReads
  /\ \E file \in PageFiles : ui' = [ui EXCEPT !.reading = @ (+) SetToBag({file})]
  /\ UNCHANGED <<build, config, disposed, req, nsub, outbox, probe>>

\* reader.onload of one of the reads under way, in any order.
ReaderOnLoad ==
  /\ ~disposed
  /\ \E file \in BagToSet(ui.reading) :
       ui' = [ui EXCEPT !.reading = @ (-) SetToBag({file}),
                       !.currentMediaData = file.url,
                       !.currentMediaType = TypeHead(file.type)]
  /\ UNCHANGED <<build, config, disposed, req, nsub, outbox, probe>>

\* Variant: a chatResponse leaves the class of the response area as it is.
OnWindowMessageKeepsClass ==
  /\ ~disposed
  /\ ui.seen < Len(outbox)
  /\ LET m == outbox[ui.seen + 1].msg
         shown == m.command \in {"chatResponse", "error"}
     IN ui' = [ui EXCEPT !.seen = @ + 1,
                         !.askBtnDisabled = FALSE,
                         !.askBtnText = "Send",
                         !.responseText = IF shown THEN m.text ELSE @,
                         !.responseClass = IF m.command = "error" THEN "error" ELSE @]
  /\ UNCHANGED <<build, config, disposed, req, nsub, outbox, probe>>

\* window 'message' listener, for the next message of the outbox.
OnWindowMessage ==
  /\ ~disposed
  /\ ui.seen < Len(outbox)
  /\ LET m == outbox[ui.seen + 1].msg
         shown == m.command \in {"chatResponse", "error"}
     IN ui' = [ui EXCEPT !.seen = @ + 1,
                         !.askBtnDisabled = FALSE,
                         !.askBtnText = "Send",
                         !.responseText = IF shown THEN m.text ELSE @,
                         !.responseClass = IF m.command = "chatResponse" THEN ""
                                           ELSE IF m.command = "error" THEN "error" ELSE @]
  /\ UNCHANGED <<build, config, disposed, req, nsub, outbox, probe>>

\* Longest fragment stream delivered while the page is driven.
MaxPageFrags == 1

\* One turn of the for-await loop, for a stream of at most MaxPageFrags fragments.
PageStreamPart(r) ==
  /\ req[r].k < MaxPageFrags
  /\ StreamPart(r, PanelFragments)

NextUI ==
  \/ ClickAsk
  \/ DeliverPosted
  \/ SelectModel
  \/ OnWindowMessage
  \/ Dispose
  \/ \E r \in Req : GenerateContentResolves(r)
  \/ \E r \in Req : GenerateContentRejects(r)
  \/ \E r \in Req : ChatResolves(r)
  \/ \E r \in Req : ChatRejects(r)
  \/ \E r \in Req : PageStreamPart(r)
  \/ \E r \in Req : StreamEnds(r)
  \/ \E r \in Req : StreamFails(r)

SpecUI == InitPanel /\ [][NextUI]_vars

\* The same with what the event loop and the providers guarantee: a message
\* posted to the page or to the extension is handled, and a provider call or stream eventually
\* returns, ends or fails.
FairUI ==
  /\ WF_vars(OnWindowMessage)
  /\ WF_vars(DeliverPosted)
  /\ \A r \in Req :
       /\ WF_vars(GenerateContentResolves(r) \/ GenerateContentRejects(r))
       /\ WF_vars(ChatResolves(r) \/ ChatRejects(r))
       /\ WF_vars(StreamEnds(r) \/ StreamFails(r))

SpecUIFair == InitPanel /\ [][NextUI]_vars /\ FairUI

(***************************************************************************)
(* The page with its file input: the user loads files, changes the model   *)
(* and sends requests.  The local provider's streams carry no fragment     *)
(* here (the call fails or the stream ends), so the requests follow one    *)
(* another.                                                                *)
(***************************************************************************)
NextPage ==
  \/ ClickAsk
  \/ DeliverPosted
  \/ SelectModel
  \/ MediaInputChange
  \/ ReaderOnLoad
  \/ OnWindowMessage
  \/ \E r \in Req : GenerateContentResolves(r)
  \/ \E r \in Req : GenerateContentRejects(r)
  \/ \E r \in Req : ChatResolves(r)
  \/ \E r \in Req : ChatRejects(r)
  \/ \E r \in Req : StreamEnds(r)

SpecPage == InitPanel /\ [][NextPage]_vars

(***************************************************************************)
(* Requests handled one after another by the registered handler of         *)
(* extension.ts or of part_002: each is submitted when the one before has  *)
(* ended.                                                                  *)
(***************************************************************************)
NoMedia == [mediaData |-> <<>>, mediaType |-> Undefined]

\* A request of each kind of ending: provider answer or error, unknown
\* provider, unknown model, malformed media, missing configuration.
SeqMessages ==
  { ChatMsg("ollama", "deepseek-r1:7b", NoMedia),
    ChatMsg("gemini", "gemini-2.0-flash", NoMedia),
    ChatMsg("openai", "gemini-2.0-flash", NoMedia),
    ChatMsg("gemini", Undefined, NoMedia),
    ChatMsg("gemini", "gemini-2.0-flash", [mediaData |-> NoPrefixData, mediaType |-> "image"]),
    ChatMsg("vscode-lm", Undefined, NoMedia) }

\* The handler each build registers with onDidReceiveMessage.  No build keeps
\* or disposes the subscription the call returns: the registration lasts as
\* long as the panel.
Registered(b) ==
  IF b = "extension" THEN "ext" ELSE IF b = "part_002" THEN "lm" ELSE "v1"

InitSeq ==
  /\ build \in {"extension", "part_002"}
  /\ config \in (IF build = "part_002" THEN {{}, {"roo-cline.vsCodeLmModelSelector"}}
                 ELSE {{}})
  /\ disposed = FALSE
  /\ req = [r \in Req |-> IdleRequest]
  /\ nsub = 0
  /\ outbox = <<>>
  /\ ui = InitialPageOf(build)
  /\ probe = NoProbe

\* Variant: the callback is a plain function.
PlainCallback(h) == FALSE

\* The callback of handler h is an async arrow function (`async (message) =>`
\* in all three builds): calling it returns a promise and never throws; an
\* exception that leaves its body rejects that promise.
AsyncCallback(h) == h \in {"ext", "lm", "v1"}

\* The call of the callback that ran request q threw to the panel's emitter.
ThrownToEmitter(q) == q.escaped /\ ~AsyncCallback(q.h)

\* The panel delivers one more message to the registered callback, the
\* requests before it finished.  Every earlier call of the callback returned
\* to the emitter (what the emitter does with a listener that throws is not
\* the builds' code).
SubmitSeq ==
  /\ nsub < NReq
  /\ ~disposed
  /\ \A r \in 1..nsub : req[r].pc = "done" /\ ~ThrownToEmitter(req[r])
  /\ \E m \in SeqMessages : Receive(nsub + 1, Registered(build), m)

NextSeq ==
  \/ SubmitSeq
  \/ Dispose
  \/ \E r \in Req : GenerateContentResolves(r)
  \/ \E r \in Req : GenerateContentRejects(r)
  \/ \E r \in Req : ChatResolves(r)
  \/ \E r \in Req : ChatRejects(r)
  \/ \E r \in Req : StreamPart(r, PanelFragments)
  \/ \E r \in Req : StreamEnds(r)
  \/ \E r \in Req : StreamFails(r)
  \/ \E r \in Req : SelectResolves(r)
  \/ \E r \in Req : SelectRejects(r)

SpecSeq == InitSeq /\ [][NextSeq]_vars

(***************************************************************************)
(* One gemini request of extension.ts whose mediaData is any text over the *)
(* pieces of a data URL: what handleGeminiMultimodalRequest extracts from  *)
(* it.                                                                     *)
(***************************************************************************)
\* Longest mediaData, in tokens.
MaxUrlLen == 5

UrlTokens == {"data:", ";base64", ",", "image/png", "AAAA"}

\* Every text of at most MaxUrlLen tokens.
MediaTexts == UNION { [1..n -> UrlTokens] : n \in 0..MaxUrlLen }

SubmitMedia ==
  /\ nsub = 0
  /\ ~disposed
  /\ \E data \in MediaTexts :
       Receive(1, "ext", ChatMsg("gemini", "gemini-2.0-flash",
                                 [mediaData |-> data, mediaType |-> "image"]))

NextMedia ==
  \/ SubmitMedia
  \/ Dispose
  \/ \E r \in Req : GenerateContentResolves(r)
  \/ \E r \in Req : GenerateContentRejects(r)

SpecMedia == InitPanel /\ [][NextMedia]_vars

(***************************************************************************)
(* One call of MediaProcessor.validateMedia, on any file and descriptor.   *)
(***************************************************************************)
FileTypes ==
  { <<"image", "/", "png">>, <<"video", "/", "mp4">>, <<"audio", "/", "mpeg">>,
    <<"text", "/", "plain">>, <<"application", "/", "pdf">>, <<"image">>, <<>> }

\* Sizes at and next to each ceiling.
FileSizes ==
  {0, 1} \cup { mb * BytesPerMB + d : mb \in {1, DefaultMaxInputSize, 100}, d \in {-1, 0, 1} }

\* The descriptors validateMedia can be given: the entries of the registry.
Descriptors == {GeminiFlash, GeminiFlashLite, DeepSeek}

InitValidate ==
  /\ build = "extension"
  /\ config = {}
  /\ disposed = FALSE
  /\ req = [r \in Req |-> IdleRequest]
  /\ nsub = 0
  /\ outbox = <<>>
  /\ ui = InitialPage
  /\ probe \in { [file |-> [type |-> t, size |-> n], config |-> c,
                  called |-> FALSE, result |-> NoResult] :
                 t \in FileTypes, n \in FileSizes, c \in Descriptors }

CallValidateMedia ==
  /\ ~probe.called
  /\ probe' = [probe EXCEPT !.called = TRUE,
                            !.result = ValidateMedia(probe.file, probe.config)]
  /\ UNCHANGED <<build, config, disposed, req, nsub, outbox, ui>>

NextValidate == CallValidateMedia

SpecValidate == InitValidate /\ [][NextValidate]_vars

(***************************************************************************)
(* Properties                                                              *)
(***************************************************************************)
RECURSIVE Concat(_)
Concat(ss) == IF ss = <<>> THEN <<>> ELSE Head(ss) \o Concat(Tail(ss))

\* The text ends with the text e.
EndsWith(text, e) ==
  Len(text) >= Len(e) /\ SubSeq(text, Len(text) - Len(e) + 1, Len(text)) = e

\* The messages request r has had delivered to the panel, in order.
PostedOf(r) ==
  LET mine == SelectSeq(outbox, LAMBDA e : e.rid = r)
  IN [i \in 1..Len(mine) |-> mine[i].msg]

ChatResponsesOf(r) == SelectSeq(PostedOf(r), LAMBDA m : m.command = "chatResponse")
ErrorsOf(r) == SelectSeq(PostedOf(r), LAMBDA m : m.command = "error")

Done(r) == req[r].pc = "done"
Started(r) == req[r].pc # "idle"
IsChat(r) == Started(r) /\ (req[r].msg.command = "chat" \/ req[r].h = "hcm")
KnownProvider(r) == req[r].msg.model \in KnownProviders(req[r].h)
KnownPair(r) ==
  /\ req[r].msg.model \in {"gemini", "ollama"}
  /\ req[r].msg.modelKey \in DOMAIN modelOptions[req[r].msg.model]
UsesOllama(r) ==
  /\ Started(r)
  /\ req[r].adapters \in {<<"handleOllamaChatResponse">>, <<"handleChatResponse">>}

\* A message that ends a request by its nature: a Failure, or a chatResponse
\* posted outside a stream loop.
Terminal(m) == m.command = "error" \/ m.k = 0

\* C1: in extension.ts, every finished chat request of a known provider, its
\* panel live, has posted chatResponse messages followed by exactly one terminal
\* message (the last chatResponse of the stream, or an error), so at least one
\* message, with no error before the last position.
C1_PartialsThenOneTerminal ==
  \A r \in Req :
    (Done(r) /\ IsChat(r) /\ req[r].h = "ext" /\ KnownProvider(r) /\ ~disposed)
      => LET p == PostedOf(r)
         IN /\ Len(p) >= 1
            /\ \A i \in 1..(Len(p) - 1) : p[i].command = "chatResponse"

\* C2: among the messages delivered for a request there is at most one terminal
\* message, and nothing is delivered after it: never a final chatResponse and an
\* error, never two errors.
C2_AtMostOneTerminal ==
  \A r \in Req :
    LET p == PostedOf(r)
    IN /\ Cardinality({i \in 1..Len(p) : Terminal(p[i])}) <= 1
       /\ \A i \in 1..Len(p) : Terminal(p[i]) => i = Len(p)

\* A finished request for which the adapter's try block, the adapter's catch
\* block and the dispatcher's catch block have all run.
C2_Witness ==
  \E r \in Req :
    /\ Done(r)
    /\ {"adapterTry", "adapterCatch", "dispatcherCatch"} \subseteq req[r].trail

\* C3: for a chat request of a known provider no exception leaves the handler,
\* the panel disposed or not.
C3_NoExceptionEscapes ==
  \A r \in Req :
    (Done(r) /\ IsChat(r) /\ KnownProvider(r)) => ~req[r].escaped

\* C4: a chat request with an unknown provider tag, received by a registered
\* message handler while the panel is live, ends with exactly one error message
\* posted, no adapter invoked and no exception leaving the handler.
C4_UnknownProviderOneFailure ==
  \A r \in Req :
    (Done(r) /\ IsChat(r) /\ req[r].h \in {"ext", "lm"} /\ ~KnownProvider(r) /\ ~disposed)
      => /\ Len(PostedOf(r)) = 1
         /\ PostedOf(r)[1].command = "error"
         /\ req[r].adapters = <<>>
         /\ ~req[r].escaped

\* C5: a chat request with a known (provider, modelKey) pair and no media invokes
\* the adapter of its provider and no other.
C5_MatchingAdapterOnly ==
  \A r \in Req :
    (IsChat(r) /\ req[r].h \in {"ext", "lm", "hcm"} /\ KnownPair(r)
       /\ req[r].msg.mediaData = <<>>)
      => req[r].adapters =
           << IF req[r].msg.model = "ollama"
              THEN "handleOllamaChatResponse" ELSE "handleGeminiChatResponse" >>

\* C6: a chat request whose attachment kind is not among its model's supported
\* media never issues a provider call, and once finished with the panel live it
\* has posted exactly one error.
C6_UnsupportedMediaRejected ==
  \A r \in Req :
    (IsChat(r) /\ req[r].h \in {"ext", "lm", "hcm"} /\ KnownPair(r) /\ HasMedia(req[r].msg)
       /\ ~Includes(modelOptions[req[r].msg.model][req[r].msg.modelKey].supportedMedia,
                    req[r].msg.mediaType))
      => /\ req[r].calls = <<>>
         /\ (Done(r) /\ ~disposed) =>
              (Len(PostedOf(r)) = 1 /\ PostedOf(r)[1].command = "error")

\* C7: on the local streaming adapter the k-th chatResponse carries the
\* concatenation of the first k fragments, and when the stream of n >= 1
\* fragments has ended without failure, the panel live, n messages were relayed
\* and the last carries the concatenation of all n.
C7_CumulativeText ==
  \A r \in Req :
    UsesOllama(r) =>
      LET p == PostedOf(r)
          f == req[r].provided
      IN /\ \A i \in 1..Len(ChatResponsesOf(r)) :
              /\ i <= Len(f)
              /\ ChatResponsesOf(r)[i].text = Concat(SubSeq(f, 1, i))
         /\ (Done(r) /\ ~disposed /\ req[r].failure = NoError /\ Len(f) >= 1)
              => /\ Len(p) = Len(f)
                 /\ p[Len(p)].command = "chatResponse"
                 /\ p[Len(p)].text = Concat(f)

\* A finished stream of two different fragments, relayed to a live panel.
C7_Witness ==
  \E r \in Req :
    /\ UsesOllama(r) /\ Done(r) /\ ~disposed /\ req[r].failure = NoError
    /\ Len(req[r].provided) >= 2
    /\ req[r].provided[1] # req[r].provided[2]
    /\ Len(PostedOf(r)) = Len(req[r].provided)

\* C8: the partial messages of a request reach the panel in the order of the
\* fragments, one per fragment: the i-th is the one posted for fragment i, and
\* while the panel is live there are as many as fragments consumed, whatever
\* other requests post in between.
C8_PartialsInStreamOrder ==
  \A r \in Req :
    UsesOllama(r) =>
      LET p == ChatResponsesOf(r)
      IN /\ \A i \in 1..Len(p) : p[i].k = i
         /\ ~disposed => Len(p) = req[r].k

\* Two streams whose partial messages interleave on the panel.
C8_Witness ==
  /\ ~disposed
  /\ \E r1, r2 \in Req :
       /\ r1 # r2 /\ UsesOllama(r1) /\ UsesOllama(r2)
       /\ req[r1].k >= 2 /\ req[r2].k >= 1
       /\ \E i, j, l \in 1..Len(outbox) :
            /\ i < j /\ j < l
            /\ outbox[i].rid = r1 /\ outbox[j].rid = r2 /\ outbox[l].rid = r1

\* C9: a request whose provider call or stream failed, or whose media was
\* malformed, ends with exactly one error message that carries the failure's
\* message, with at most one provider call issued, and without the adapter
\* rethrowing to the dispatcher.
C9_FailureBecomesOneFailure ==
  \A r \in Req :
    (Done(r) /\ req[r].adapters # <<>>
       /\ (req[r].failure # NoError \/ req[r].error = MimeError))
      => /\ Len(ErrorsOf(r)) = 1
         /\ EndsWith(ErrorsOf(r)[1].text,
                     IF req[r].failure # NoError THEN req[r].failure ELSE MimeError)
         /\ Len(req[r].calls) <= 1
         /\ "dispatcherCatch" \notin req[r].trail
         /\ ~req[r].escaped

\* The text a provider has returned for request r so far, in each of its forms.
ProviderTexts(r) ==
  { Concat(SubSeq(req[r].provided, 1, i)) : i \in 1..Len(req[r].provided) }
  \cup { Concat([j \in 1..i |-> IF req[r].chunks[j].isTextPart
                                THEN req[r].chunks[j].value ELSE <<>>])
           : i \in 0..Len(req[r].chunks) }

\* C10: every chatResponse delivered carries text returned by a provider call
\* made for its request, and every message the dispatcher posts itself is an
\* error.
C10_NoSynthesizedSuccess ==
  \A i \in 1..Len(outbox) :
    LET r == outbox[i].rid
        m == outbox[i].msg
    IN /\ m.command = "chatResponse" =>
            /\ \E c \in 1..Len(req[r].calls) :
                 req[r].calls[c].api \in {"generateContent", "ollama.chat", "sendRequest"}
            /\ m.text \in ProviderTexts(r)
       /\ m.by = "dispatcher" => m.command = "error"

\* The host-model provider is the request's, on a build that knows it.
HostModelRequest(r) ==
  IsChat(r) /\ req[r].h \in {"lm", "hcm"} /\ req[r].msg.model = "vscode-lm"

\* C11: while the panel is live, a request handled by the hosted adapter
\* (multimodal or text-only call) or on the host-model path has nothing posted
\* before it ends and exactly one message once it has ended, a chatResponse or an
\* error posted outside any stream loop: never a partial.
C11_OneOutcomeNoPartial ==
  \A r \in Req :
    ( /\ ~disposed
      /\ \/ HostModelRequest(r)
         \/ (Started(r) /\ req[r].adapters \in {<<"handleGeminiMultimodalRequest">>,
                                                <<"handleGeminiChatResponse">>}) )
      => LET p == PostedOf(r)
         IN IF Done(r) THEN Len(p) = 1 /\ p[1].k = 0 ELSE Len(p) = 0

\* A multimodal request of the hosted adapter has ended on a live panel, its
\* provider call answered, with its one chatResponse.
C11_Witness ==
  \E r \in Req :
    /\ req[r].adapters = <<"handleGeminiMultimodalRequest">> /\ Done(r) /\ ~disposed
    /\ Len(req[r].provided) = 1
    /\ Len(PostedOf(r)) = 1 /\ PostedOf(r)[1].command = "chatResponse"

\* C12: a host-model request received while the selector key its dispatcher
\* reads is unset has ended, with no call issued (no selection query, no send)
\* and exactly one error posted, the missing-configuration text.
C12_MissingSelectorFails ==
  \A r \in Req :
    (HostModelRequest(r) /\ SelectorKey(req[r].h) \notin config)
      => /\ Done(r)
         /\ req[r].calls = <<>>
         /\ Len(PostedOf(r)) = 1
         /\ PostedOf(r)[1].command = "error"
         /\ PostedOf(r)[1].text = MissingSelectorText

\* A host-model request rejected for its missing selector although the other
\* dispatcher's key is set.
C12_Witness ==
  \E r \in Req :
    /\ HostModelRequest(r) /\ Done(r)
    /\ SelectorKey(req[r].h) \notin config /\ config # {}
    /\ Len(PostedOf(r)) = 1

\* C13: when the selection query resolved with an empty or a missing list, the
\* request has ended without a sendRequest call, and on a live panel with
\* exactly one error posted, the no-matching-model message.
C13_NoCandidateFails ==
  \A r \in Req :
    (HostModelRequest(r) /\ req[r].models \in {NoList, <<>>})
      => /\ Done(r)
         /\ req[r].calls = <<SelectChatModelsCall>>
         /\ ~disposed =>
              /\ Len(PostedOf(r)) = 1
              /\ PostedOf(r)[1].command = "error"
              /\ EndsWith(PostedOf(r)[1].text, NoModelsError)

\* The query resolved without a list, and the one error reached the live panel.
C13_Witness ==
  \E r \in Req :
    /\ HostModelRequest(r) /\ req[r].models = NoList /\ ~disposed
    /\ Len(PostedOf(r)) = 1

\* C15: a chat request for gemini or ollama whose modelKey is not in that
\* provider's table has ended with no provider call issued and exactly one
\* error posted.  (Violated by a modelKey that names a member every object
\* inherits, such as "constructor": the lookup yields that member, modelCode
\* reads as undefined, and the ollama adapter calls ollama.chat with it; the
\* gemini adapters pass it to getGenerativeModel first.)
C15_UnknownModelFails ==
  \A r \in Req :
    ( /\ IsChat(r) /\ req[r].h \in {"ext", "lm", "hcm"}
      /\ req[r].msg.model \in {"gemini", "ollama"}
      /\ req[r].msg.modelKey \notin DOMAIN modelOptions[req[r].msg.model] )
      => /\ Done(r)
         /\ req[r].calls = <<>>
         /\ Len(PostedOf(r)) = 1
         /\ PostedOf(r)[1].command = "error"
         /\ ~req[r].escaped

\* C16: a message whose command is not "chat", received by a registered
\* handler, is over at once: no adapter invoked, no call issued, nothing posted,
\* no exception, whatever its provider tag.
C16_OtherCommandIgnored ==
  \A r \in Req :
    (Started(r) /\ req[r].h \in {"ext", "lm", "v1"} /\ req[r].msg.command # "chat")
      => /\ Done(r)
         /\ req[r].adapters = <<>>
         /\ req[r].calls = <<>>
         /\ req[r].trail = {}
         /\ ~req[r].escaped
         /\ outbox = <<>>

\* A message of another command with an unknown provider tag has been received.
C16_Witness ==
  \E r \in Req :
    /\ Started(r) /\ req[r].h \in {"ext", "lm"} /\ req[r].msg.command # "chat"
    /\ req[r].msg.model = "openai"
    /\ Done(r) /\ nsub = 1


(***************************************************************************)
(* C14: data URLs                                                          *)
(***************************************************************************)
NoToken(s, t) == \A i \in 1..Len(s) : s[i] # t

\* mediaData is data:<mime>;base64,<payload> with a non-empty MIME type that
\* holds neither a comma nor ";base64", and a payload without a comma.
IsDataUrl(data, mime, payload) ==
  /\ data = <<"data:">> \o mime \o <<";base64", ",">> \o payload
  /\ mime # <<>>
  /\ NoToken(mime, ",") /\ NoToken(mime, ";base64")
  /\ NoToken(payload, ",")

\* The text before the first comma holds no "data:" with a ";base64" after it,
\* or starts with "data:;base64".
NoMimePrefix(data) ==
  LET n == IF \E i \in 1..Len(data) : data[i] = ","
           THEN (CHOOSE i \in 1..Len(data) :
                   data[i] = "," /\ \A j \in 1..(i - 1) : data[j] # ",") - 1
           ELSE Len(data)
  IN \/ ~ \E i, j \in 1..n : i < j /\ data[i] = "data:" /\ data[j] = ";base64"
     \/ (n >= 2 /\ data[1] = "data:" /\ data[2] = ";base64")

MultimodalRequest(r) ==
  Started(r) /\ req[r].adapters = <<"handleGeminiMultimodalRequest">>
             /\ req[r].cfg # UndefinedConfig

\* C14: in handleGeminiMultimodalRequest, mediaData of the form
\* data:<mime>;base64,<payload> puts mimeType = <mime> and data = <payload> in
\* the one generateContent request; mediaData with no non-empty MIME type to
\* extract ends the request with one error message (the MIME-type error) and
\* no generateContent call.
C14_DataUrlExtraction ==
  \A r \in Req : MultimodalRequest(r) =>
    LET data == req[r].msg.mediaData IN
    /\ \A n \in 1..(Len(data) - 1), m \in 0..Len(data) :
         IsDataUrl(data, SubSeq(data, 2, n + 1), SubSeq(data, Len(data) - m + 1, Len(data)))
           => req[r].calls = <<GenerateContentCall(req[r].cfg.modelCode, req[r].msg.text,
                                 SubSeq(data, 2, n + 1),
                                 SubSeq(data, Len(data) - m + 1, Len(data)))>>
    /\ NoMimePrefix(data)
         => /\ Done(r)
            /\ req[r].calls = <<>>
            /\ Len(PostedOf(r)) = 1
            /\ PostedOf(r)[1].command = "error"
            /\ PostedOf(r)[1].text = <<"Error processing ", "image", ": ">> \o MimeError

\* Both cases happened: a PNG data URL was sent on, a text without prefix failed.
C14_Witness ==
  /\ MultimodalRequest(1)
  /\ req[1].msg.mediaData = PngDataUrl
  /\ req[1].calls = <<GenerateContentCall(GeminiFlash.modelCode, Prompt, <<"image/png">>, <<"AAAA">>)>>
  /\ Done(1)

C14_WitnessMalformed ==
  /\ MultimodalRequest(1)
  /\ req[1].msg.mediaData = <<"AAAA", ",", "AAAA">>
  /\ Len(PostedOf(1)) = 1

(***************************************************************************)
(* C20: validateMedia                                                      *)
(***************************************************************************)
\* The ceiling in bytes as the descriptor states it: maxInputSize MB, or the
\* default when the field is unset.
StatedCeiling(c) ==
  (IF c.maxInputSize = <<>> THEN DefaultMaxInputSize ELSE c.maxInputSize[1]) * BytesPerMB

\* C20: validateMedia accepts a file exactly when its detected kind is in the
\* descriptor's supportedMedia and its size is at most the ceiling
\* (maxInputSize MB, 20 MB when maxInputSize is unset); an absent kind fails
\* with the unsupported-kind error whatever the size, a size above the ceiling
\* alone fails with the size error, a size equal to the ceiling is accepted.
C20_ValidateMediaContract ==
  probe.called =>
    LET kind == DetectMediaType(probe.file)
        supported == Includes(probe.config.supportedMedia, kind)
        fits == probe.file.size <= StatedCeiling(probe.config)
    IN /\ probe.result.ok <=> (supported /\ fits)
       /\ ~supported => probe.result.error = UnsupportedMediaError(kind)
       /\ (supported /\ ~fits) => probe.result.error = OversizedError

\* validateMedia was given a text file of exactly 20 MB for the descriptor that
\* sets no maxInputSize, and accepted it.
C20_Witness ==
  /\ probe.called /\ probe.config = DeepSeek
  /\ DetectMediaType(probe.file) = "text"
  /\ probe.file.size = DefaultMaxInputSize * BytesPerMB
  /\ probe.result.ok

\* An image one byte above the 100 MB of its descriptor was rejected for its
\* size, and an oversized video was rejected for its kind by a descriptor that
\* does not list video.
C20_WitnessRejected ==
  /\ probe.called /\ ~probe.result.ok
  /\ \/ /\ probe.config = GeminiFlash /\ DetectMediaType(probe.file) = "image"
        /\ probe.file.size = 100 * BytesPerMB + 1
        /\ probe.result.error = OversizedError
     \/ /\ probe.config = GeminiFlashLite /\ DetectMediaType(probe.file) = "video"
        /\ probe.file.size = 100 * BytesPerMB + 1
        /\ probe.result.error = UnsupportedMediaError("video")

(***************************************************************************)
(* C17: one request at a time                                              *)
(***************************************************************************)
\* C17: while the panel lives, at most one chat request is in flight (posted by
\* a click and not yet received, or received and not yet ended), and the Send
\* button is disabled for as long as a request is in flight.
C17_OneRequestInFlight ==
  ~disposed =>
    /\ Len(ui.posted) + Cardinality({r \in Req : InFlight(r)}) <= 1
    /\ (ui.posted # <<>> \/ \E r \in Req : InFlight(r)) => ui.askBtnDisabled

(***************************************************************************)
(* C18, C19: requests do not affect one another                            *)
(***************************************************************************)
\* What the panel is told by a message: its command, text and mediaType.
Told(m) == [command |-> m.command, text |-> m.text, mediaType |-> m.mediaType]
ToldOf(r) == [i \in 1..Len(PostedOf(r)) |-> Told(PostedOf(r)[i])]

Reply(text, mediaType) ==
  [command |-> "chatResponse", text |-> text, mediaType |-> mediaType]
Failure(text) == [command |-> "error", text |-> text, mediaType |-> Undefined]

\* One reply per fragment, each with the text of the fragments so far.
Partials(frags) ==
  [i \in 1..Len(frags) |-> Reply(Concat(SubSeq(frags, 1, i)), Undefined)]

\* The outcome the builds' documentation of each path gives for a finished
\* request on a panel that was never disposed, from the message, the
\* configuration keys and what the providers did (hist) alone: what the panel
\* is told, and whether an exception left the handler.  It is written out case
\* by case, without the handlers' operators.  (The modelKey is one the
\* registry holds, or one no object has.)
Expected(b, msg, keys, hist) ==
  LET failed == hist.failure # NoError
      ends(told) == [told |-> told, escaped |-> FALSE]
      known == /\ msg.model \in {"gemini", "ollama"}
               /\ msg.modelKey \in DOMAIN modelOptions[msg.model]
      present == msg.mediaData # <<>> /\ msg.mediaType \notin {Undefined, ""}
      withMedia ==
        /\ present
        /\ IF b = "extension" THEN msg.model = "gemini"
           ELSE known /\ Includes(modelOptions[msg.model][msg.modelKey].supportedMedia,
                                  msg.mediaType)
      processing == <<"Error processing ", msg.mediaType, ": ">>
  IN IF msg.model = "vscode-lm" /\ b = "part_002"
     THEN IF "roo-cline.vsCodeLmModelSelector" \notin keys
          THEN ends(<<Failure(MissingSelectorText)>>)
          ELSE IF failed
          THEN ends(<<Failure(<<"Error: VS Code LM API Error: ">> \o hist.failure)>>)
          ELSE IF hist.models \in {NoList, <<>>}
          THEN ends(<<Failure(<<"Error: VS Code LM API Error: ">> \o NoModelsError)>>)
          ELSE ends(<<Reply(<<"Result from VS Code LM API">>, Undefined)>>)
     ELSE IF msg.model \notin {"gemini", "ollama"}
     THEN [told |-> <<>>, escaped |-> TRUE]
     ELSE IF ~known
     THEN ends(<<Failure((IF withMedia THEN processing ELSE <<"Error: ">>)
                         \o TypeErrorModelCode)>>)
     ELSE IF msg.model = "ollama" /\ b = "extension"
     THEN ends(Partials(hist.provided)
               \o (IF failed THEN <<Failure(<<"Error: ">> \o hist.failure)>> ELSE <<>>))
     ELSE IF withMedia
     THEN IF NoMimePrefix(msg.mediaData)
          THEN ends(<<Failure(processing \o MimeError)>>)
          ELSE IF failed THEN ends(<<Failure(processing \o hist.failure)>>)
          ELSE ends(<<Reply(hist.provided[1], msg.mediaType)>>)
     ELSE IF failed THEN ends(<<Failure(<<"Error: ">> \o hist.failure)>>)
     ELSE ends(<<Reply(hist.provided[1], Undefined)>>)

\* What request r came to.
Outcome(r) == [told |-> ToldOf(r), escaped |-> req[r].escaped]

HistoryOf(r) ==
  [provided |-> req[r].provided, failure |-> req[r].failure, models |-> req[r].models]

\* Request r ended in a failure: an error message, or an exception that left
\* the handler.
EndedInFailure(r) == Done(r) /\ (ErrorsOf(r) # <<>> \/ req[r].escaped)

\* C18: on a live panel, after a request ended in a failure (an error
\* message, or an exception that left the handler) the callback still takes
\* the next message, and the request that follows the failed one comes to the
\* outcome its own message, the configuration and its own providers'
\* behaviour give: nothing of the failed request shows in it.
C18_FailureNotFatal ==
  /\ (~disposed /\ nsub \in 1..(NReq - 1) /\ EndedInFailure(nsub))
       => ENABLED SubmitSeq
  /\ \A r \in Req :
       (r > 1 /\ ~disposed /\ Done(r) /\ EndedInFailure(r - 1)) =>
         Outcome(r) = Expected(build, req[r].msg, config, HistoryOf(r))

\* After an exception left the handler, an ollama request streamed two
\* fragments and ended.
C18_Witness ==
  /\ ~disposed
  /\ req[1].escaped /\ Done(1)
  /\ Done(2) /\ req[2].msg.model = "ollama"
  /\ Len(ChatResponsesOf(2)) = 2 /\ ErrorsOf(2) = <<>>

\* After an error message of the provider, a gemini request is answered.
C18_WitnessProviderError ==
  /\ ~disposed
  /\ Done(1) /\ req[1].failure # NoError /\ Len(ErrorsOf(1)) = 1
  /\ Done(2) /\ req[2].msg.model = "gemini" /\ Len(ChatResponsesOf(2)) = 1

\* C19: on a live panel the outcome of every finished request, the first as
\* the later ones, is the one function Expected of its message, the
\* configuration and its providers' behaviour (so the stream's first reply is
\* its first fragment alone: the accumulator starts empty); and two requests
\* with the same message, for which the providers behaved the same, were told
\* the same messages, issued the same calls and ended the same way.
C19_SameRequestSameOutcome ==
  /\ \A r \in Req :
       (~disposed /\ Done(r)) =>
         Outcome(r) = Expected(build, req[r].msg, config, HistoryOf(r))
  /\ \A r1, r2 \in Req :
       ( /\ r1 < r2 /\ ~disposed /\ Done(r1) /\ Done(r2)
         /\ req[r1].msg = req[r2].msg
         /\ HistoryOf(r1) = HistoryOf(r2) )
       => /\ PostedOf(r1) = PostedOf(r2)
          /\ req[r1].calls = req[r2].calls
          /\ req[r1].escaped = req[r2].escaped

\* The same ollama request twice, each time one fragment and then an error.
C19_Witness ==
  /\ ~disposed /\ Done(1) /\ Done(2)
  /\ req[1].msg = req[2].msg /\ req[1].msg.model = "ollama"
  /\ HistoryOf(1) = HistoryOf(2)
  /\ Len(req[1].provided) = 1 /\ req[1].failure # NoError
  /\ Len(PostedOf(2)) = 2

(***************************************************************************)
(* C21: the host-model stream                                              *)
(***************************************************************************)
\* The values of the text parts among the chunks, in order.
TextPartValues(chunks) ==
  LET parts == SelectSeq(chunks, LAMBDA c : c.isTextPart)
  IN [i \in 1..Len(parts) |-> parts[i].value]

SendsOf(r) == SelectSeq(req[r].calls, LAMBDA c : c.api = "sendRequest")

\* selectChatModels resolved with a list of one or more models.
HasCandidates(r) ==
  req[r].models \notin {<<"unresolved">>, NoList, <<>>}

\* C21: on a live panel, a host-model request whose selection returned one or
\* more models sends the prompt to the first model of the list and to no
\* other; ended without a provider failure it has posted one chatResponse
\* whose text is the concatenation, in order, of the values of the text-part
\* chunks; ended by a failure it has posted one error and no chatResponse.
C21_FirstCandidateConcat ==
  \A r \in Req :
    (HostModelRequest(r) /\ ~disposed /\ HasCandidates(r)) =>
      /\ \A i \in 1..Len(SendsOf(r)) :
           SendsOf(r)[i] = SendRequestCall(req[r].models[1], req[r].msg.text)
      /\ Len(SendsOf(r)) <= 1
      /\ (Done(r) /\ req[r].failure = NoError) =>
           /\ Len(SendsOf(r)) = 1
           /\ ErrorsOf(r) = <<>>
           /\ Len(ChatResponsesOf(r)) = 1
           /\ ChatResponsesOf(r)[1].text = Concat(TextPartValues(req[r].chunks))
      /\ (Done(r) /\ req[r].failure # NoError) =>
           /\ ChatResponsesOf(r) = <<>>
           /\ Len(ErrorsOf(r)) = 1

(***************************************************************************)
(* C22: the local-model path                                               *)
(***************************************************************************)
\* C22: a chat request tagged with the local-model provider, with or without
\* media, makes no provider call other than one ollama.chat call carrying the
\* prompt text and no media, and never enters the multimodal adapter.
C22_LocalIgnoresMedia ==
  \A r \in Req :
    (IsChat(r) /\ req[r].msg.model = "ollama") =>
      /\ Len(req[r].calls) <= 1
      /\ \A i \in 1..Len(req[r].calls) :
           /\ req[r].calls[i].api = "ollama.chat"
           /\ req[r].calls[i].prompt = req[r].msg.text
           /\ req[r].calls[i].mimeType = <<>> /\ req[r].calls[i].data = <<>>
      /\ ~Includes(req[r].adapters, "handleGeminiMultimodalRequest")

(***************************************************************************)
(* C23: the response area                                                  *)
(***************************************************************************)
\* The messages the listener has handled so far that it displays.
ShownSoFar ==
  SelectSeq([i \in 1..ui.seen |-> outbox[i].msg],
            LAMBDA m : m.command \in {"chatResponse", "error"})

\* C23: after the listener has handled any number of messages, the response
\* area holds the text of the last chatResponse or error among them and has
\* the error class exactly when that message is an error; before any, it is
\* empty and unstyled.
C23_ResponseAreaShowsLatest ==
  LET shown == ShownSoFar IN
  IF shown = <<>>
  THEN ui.responseText = <<>> /\ ui.responseClass = ""
  ELSE /\ ui.responseText = shown[Len(shown)].text
       /\ (ui.responseClass = "error") <=> (shown[Len(shown)].command = "error")
       /\ ui.responseClass \in {"", "error"}

\* A failure message has replaced the partial text shown before it.
C23_Witness ==
  /\ ui.seen >= 2
  /\ outbox[ui.seen - 1].msg.command = "chatResponse"
  /\ outbox[ui.seen].msg.command = "error"
  /\ ui.responseClass = "error" /\ ui.responseText = outbox[ui.seen].msg.text

\* A chatResponse handled after an error has cleared the error class.
C23_WitnessCleared ==
  /\ ui.seen >= 2
  /\ outbox[ui.seen - 1].msg.command = "error"
  /\ outbox[ui.seen].msg.command = "chatResponse"
  /\ ui.responseClass = ""

(***************************************************************************)
(* C24: the Send button comes back                                         *)
(***************************************************************************)
\* C24: while the panel lives, every request the extension has received
\* eventually has a message posted to the page, and a disabled Send button is
\* eventually enabled again.
C24_SendReenabled ==
  /\ \A r \in Req : [](Started(r) => <>(PostedOf(r) # <<>> \/ disposed))
  /\ [](ui.askBtnDisabled => <>(~ui.askBtnDisabled \/ disposed))

(***************************************************************************)
(* C25: whose text the response area shows                                 *)
(***************************************************************************)
\* Every request sent by a click has been received and has ended, and the
\* listener has handled every message posted.
AllSettled ==
  /\ nsub >= 1
  /\ ui.posted = <<>>
  /\ \A r \in 1..nsub : Done(r)
  /\ ui.seen = Len(outbox)

\* C25: on a live panel, once every submitted request has ended and every
\* message has been handled, the response area shows the last message of the
\* request submitted last (when that request posted any).
C25_LatestRequestShown ==
  (~disposed /\ AllSettled /\ PostedOf(nsub) # <<>>) =>
    LET last == PostedOf(nsub)[Len(PostedOf(nsub))]
    IN /\ ui.responseText = last.text
       /\ (ui.responseClass = "error") <=> (last.command = "error")

(***************************************************************************)
(* C26: the loaded file                                                    *)
(***************************************************************************)
\* C26: no step of the page empties the current media once a file is loaded,
\* and only the load of a file changes it; every chat message sent carries the
\* current mediaData and mediaType when the selected model's supportedMedia
\* includes the current kind, and carries no media otherwise; the extension
\* receives each message as the click handler built it.
C26_MediaKept ==
  [][ LET supported == /\ ui.currentMediaData # <<>>
                       /\ Includes(ui.selected.supportedMedia, ui.currentMediaType)
      IN /\ ui.currentMediaData # <<>> => ui'.currentMediaData # <<>>
         /\ <<ui'.currentMediaData, ui'.currentMediaType>>
              # <<ui.currentMediaData, ui.currentMediaType>>
            => \E file \in BagToSet(ui.reading) : ui'.currentMediaData = file.url
         /\ Len(ui'.posted) > Len(ui.posted) =>
              LET sent == ui'.posted[Len(ui'.posted)] IN
              /\ supported => /\ sent.mediaData = ui.currentMediaData
                              /\ sent.mediaType = ui.currentMediaType
              /\ ~supported => /\ sent.mediaData = <<>>
                               /\ sent.mediaType = Undefined
         /\ nsub' = nsub + 1 =>
              /\ ui.posted # <<>>
              /\ req'[nsub'].msg = Head(ui.posted)
    ]_vars

\* The loaded image was sent with a first request, and again, after its
\* response and a model change, with a second one.
C26_Witness ==
  /\ nsub = 2 /\ Done(1)
  /\ req[1].msg.modelKey = "gemini-2.0-flash" /\ req[1].msg.mediaData = PngDataUrl
  /\ req[2].msg.modelKey = "gemini-2.0-flash-lite" /\ req[2].msg.mediaData = PngDataUrl
  /\ req[2].msg.mediaType = "image"

\* With the image still loaded, a request for the text-only model carried no
\* media.
C26_WitnessUnsupported ==
  /\ nsub = 2
  /\ req[1].msg.mediaData = PngDataUrl
  /\ req[2].msg.model = "ollama" /\ req[2].msg.mediaData = <<>>
  /\ ui.currentMediaData = PngDataUrl

====
